---- MODULE Spec2Model ----
(***************************************************************************)
(* Verification model of the ITensor MPS implementation header (svdBond,   *)
(* orthogonality bookkeeping, applyGate, overlapC, sum) and of the QN      *)
(* quantum-number header.                                                  *)
(*                                                                         *)
(* Site tensors are opaque in the sources (the tensor type and its         *)
(* decompositions live elsewhere); a site tensor is modelled by the two    *)
(* facts checkOrtho can observe about it: whether it is a left-isometry    *)
(* (lo) and whether it is a right-isometry (ro).                           *)
(***************************************************************************)
EXTENDS Integers, Sequences, FiniteSets

VARIABLES
    N,          \* MPS: number of sites, psi.N()
    A_,         \* MPS: site tensors A_[1..N], each [lo, ro]
    leftLim,    \* MPS: l_orth_lim_
    rightLim,   \* MPS: r_orth_lim_
    bond,       \* MPS: bond recorded by setBond(b); 0 before any call
    op,         \* last operation called on the MPS
    err,        \* how that call ended: "none", "gauge", "ortho"
    dir,        \* Direction handed to the last svdBond
    fromleft,   \* option Fromleft of the last applyGate
    branch,     \* decomposition used by the last svdBond: "svd", "denmat"
    ret,        \* value returned by the last orthoCenter call
    reads,      \* sites whose tensor the last norm call read
    writes,     \* storage slots of A_ the last call assigned
    sumInput,   \* sum: the terms handed to the outermost call
    sumTerms,   \* sum: the terms of the call being executed
    sumPc,      \* sum: "idle", "call" (a call of sum is entered), "done"
    sumRes,     \* sum: the MPS returned
    sumAdds,    \* sum: calls of the two-term sum made so far
    sumRounds,  \* sum: recursive calls made so far
    ovNpsi,     \* overlapC: psi.N()
    ovNphi,     \* overlapC: phi.N()
    ovLinks,    \* overlapC: bonds b of psi on which linkInd(psi,b) is an index
    ovPc,       \* overlapC: "idle", "start", "first", "loop", "last", "done"
    ovI,        \* overlapC: the loop variable i
    ovOps,      \* overlapC: the site tensors contracted into L so far
    ovErr,      \* overlapC: "none", "mismatch"
    qnIn,       \* QN: the (value, mod) pairs handed to the constructor
    qnPc,       \* QN: "idle", "input", "done"
    qnQ,        \* QN: q
    qnNeg,      \* QN: -q
    qnSum       \* QN: q + (-q)

mpsVars == <<N, A_, leftLim, rightLim, bond, op, err, dir, fromleft, branch, ret, reads, writes>>

sumVars == <<sumInput, sumTerms, sumPc, sumRes, sumAdds, sumRounds>>

ovVars == <<ovNpsi, ovNphi, ovLinks, ovPc, ovI, ovOps, ovErr>>

qnVars == <<qnIn, qnPc, qnQ, qnNeg, qnSum>>

vars == <<mpsVars, sumVars, ovVars, qnVars>>

\* ------------------------------------------------------------------ bounds

MaxN == 3

\* sum: longest list of terms, and the number of distinct terms
MaxTerms == 5

MaxTermId == 3

\* overlapC: longest chain
MaxLen == 4

\* QN: largest sector value handed to a constructor
MaxQ == 1

\* ------------------------------------------------------------- directions

Fromleft == "Fromleft"

Fromright == "Fromright"

Direction == {Fromleft, Fromright}

\* ------------------------------------------------------------------- Args

\* 1E-12, the precision threshold of svdBond, in units of 1E-13
CutThreshold == 10

NoiseVals == {0, 1}

CutoffVals == {0, CutThreshold}

Args == [Noise : NoiseVals, Cutoff : CutoffVals, UseSVD : BOOLEAN, DoNormalize : BOOLEAN]


\* ---------------------------------------------------------------- tensors

Tensor == [lo : BOOLEAN, ro : BOOLEAN]

Sites == 1..N

\* checkOrtho(psi,i,left): the site tensor contracted with its own conjugate
\* is the identity on the link index, within the threshold
checkOrtho(i, left) == IF left THEN A_[i].lo ELSE A_[i].ro

\* checkOrtho(psi): every site up to leftLim() is left orthogonal and every
\* site from N down to rightLim() is right orthogonal
checkOrthoAll ==
    /\ \A i \in 1..leftLim : i \in Sites => checkOrtho(i, TRUE)
    /\ \A i \in rightLim..N : i \in Sites => checkOrtho(i, FALSE)

isOrtho == leftLim + 1 = rightLim - 1

\* mutant: the centre taken one site to the left
orthoCenter_OffByOne == leftLim

orthoCenter == leftLim + 1

Max(a, b) == IF a > b THEN a ELSE b

Min(a, b) == IF a < b THEN a ELSE b

\* a copy of the tensor sequence T with slot i assigned t; a slot outside
\* the chain 1..N holds no site tensor
Assign(T, i, t) == [j \in DOMAIN T |-> IF j = i THEN t ELSE T[j]]

\* ---------------------------------------------------------------- svdBond

\* mutant: the gauge checks made with >= and <=
GaugeError_Strict(b, d) ==
    \/ d = Fromleft /\ b - 1 >= leftLim
    \/ d = Fromright /\ b + 2 <= rightLim

\* the two gauge checks at the head of svdBond
GaugeError(b, d) ==
    \/ d = Fromleft /\ b - 1 > leftLim
    \/ d = Fromright /\ b + 2 < rightLim

\* usesvd || (noise == 0 && cutoff < 1E-12)
UseExactSVD(args) == args.UseSVD \/ (args.Noise = 0 /\ args.Cutoff < CutThreshold)

\* mutant: the singular values pushed into the tensor on the other side
WeightSite_Swapped(b, d) == IF d = Fromleft THEN b ELSE b + 1

\* the site that receives the singular values (exact branch) or is left
\* carrying the non-isometric weight (density matrix branch)
WeightSite(b, d) == IF d = Fromleft THEN b + 1 ELSE b

\* svd(AA,A_[b],D,A_[b+1],args): A_[b] becomes U, a left-isometry, A_[b+1]
\* becomes V, a right-isometry; whether U is also a right-isometry (and V a
\* left one) depends on the data
SvdFactors == {uv \in Tensor \X Tensor : uv[1].lo /\ uv[2].ro}

\* t *= D (and the optional rescaling of D): the product with the singular
\* values is in general no isometry, and may be one
TimesD(t) == Tensor

\* exact branch, lines 45-56: the tensor sequences it can leave
ExactBranch(b, d) ==
    { Assign(Assign(Assign(A_, b, uv[1]), b + 1, uv[2]), WeightSite(b, d), w[1]) :
        uv \in SvdFactors, w \in { <<x, y>> \in Tensor \X Tensor : x \in TimesD(y) } }

\* denmatDecomp(AA,A_[b],A_[b+1],dir,PH,args): the tensor on the side named
\* by dir is the isometry, the other one carries the weight; DoNormalize
\* rescales the weight carrying tensor
DenmatBranch(b, d) ==
    { Assign(Assign(A_, b, ab[1]), b + 1, ab[2]) :
        ab \in { x \in Tensor \X Tensor :
                   IF d = Fromleft THEN x[1].lo ELSE x[2].ro } }

\* mutant: the rightward update sets l_orth_lim_ to b
NewLeftLim_NoStepBack(b, d) == IF d = Fromleft THEN b ELSE b

\* mutant: the leftward update sets r_orth_lim_ to b+2 unconditionally
NewRightLim_NoMax(b, d) == IF d = Fromleft THEN b + 2 ELSE b + 1

\* the new limits, lines 74-83 of svdBond
NewLeftLim(b, d) == IF d = Fromleft THEN b ELSE Min(leftLim, b - 1)

NewRightLim(b, d) == IF d = Fromleft THEN Max(rightLim, b + 2) ELSE b + 1

\* the decompositions svdBond can be steered to by the options Noise, Cutoff,
\* UseSVD and DoNormalize: TRUE for the exact SVD, FALSE for the density matrix
Modes == {UseExactSVD(args) : args \in Args}

\* MPS::svdBond(b,AA,dir,PH,args), exact being what the options select
svdBond(b, d, exact) ==
    /\ bond' = b
    /\ dir' = d
    /\ IF GaugeError(b, d)
       THEN /\ err' = "gauge"
            /\ branch' = "none"
            /\ writes' = {}
            /\ UNCHANGED <<A_, leftLim, rightLim>>
       ELSE /\ err' = "none"
            /\ IF exact
               THEN branch' = "svd" /\ A_' \in ExactBranch(b, d)
               ELSE branch' = "denmat" /\ A_' \in DenmatBranch(b, d)
            /\ writes' = {b, b + 1}
            /\ leftLim' = NewLeftLim(b, d)
            /\ rightLim' = NewRightLim(b, d)

\* a caller invoking svdBond on a bond of the chain
SvdBondCall ==
    \E b \in 1..(N - 1), d \in Direction, exact \in Modes :
        /\ op' = "svdBond"
        /\ svdBond(b, d, exact)
        /\ ret' = 0
        /\ reads' = {}
        /\ fromleft' = TRUE
        /\ UNCHANGED <<N, sumVars, ovVars, qnVars>>

\* ------------------------------------------------ orthoCenter, norm, gate

\* orthoCenter(psi)
OrthoCenterCall ==
    /\ op' = "orthoCenter"
    /\ IF ~isOrtho
       THEN err' = "ortho" /\ ret' = 0
       ELSE err' = "none" /\ ret' = orthoCenter
    /\ writes' = {}
    /\ reads' = {}
    /\ branch' = "none"
    /\ fromleft' = TRUE
    /\ UNCHANGED <<N, A_, leftLim, rightLim, bond, dir, sumVars, ovVars, qnVars>>

\* norm(psi)
NormCall ==
    /\ op' = "norm"
    /\ IF ~isOrtho
       THEN err' = "ortho" /\ reads' = {}
       ELSE err' = "none" /\ reads' = {orthoCenter}
    /\ writes' = {}
    /\ ret' = 0
    /\ branch' = "none"
    /\ fromleft' = TRUE
    /\ UNCHANGED <<N, A_, leftLim, rightLim, bond, dir, sumVars, ovVars, qnVars>>

\* mutant: the two directions exchanged
GateDir_Swapped(fl) == IF fl THEN Fromright ELSE Fromleft

\* if(fromleft) psi.svdBond(c,AA,Fromleft,args); else psi.svdBond(c,AA,Fromright,args);
GateDir(fl) == IF fl THEN Fromleft ELSE Fromright

\* applyGate(gate,psi,args); the centre is followed no further than one
\* site past the chain
ApplyGateCall ==
    \E fl \in BOOLEAN, exact \in Modes :
        /\ isOrtho => orthoCenter <= N
        /\ op' = "applyGate"
        /\ fromleft' = fl
        /\ IF ~isOrtho
           THEN /\ err' = "ortho"
                /\ branch' = "none"
                /\ writes' = {}
                /\ UNCHANGED <<A_, leftLim, rightLim, bond, dir>>
           ELSE svdBond(orthoCenter, GateDir(fl), exact)
        /\ ret' = 0
        /\ reads' = {}
        /\ UNCHANGED <<N, sumVars, ovVars, qnVars>>

\* -------------------------------------------------------------------- sum

\* An MPS expression in prefix notation: a term is <<t>> with t >= 1, the
\* two-term sum of L and R is <<0>> \o L \o R, the default MPS() is <<>>.
MPS == <<>>

\* sum(L,R,args): res = L; res.plusEq(R,args); the add-and-compress primitive
\* plusEq is opaque
sum2(L, R) == <<0>> \o L \o R

\* mutant: the odd case rounded down
nsize_RoundedDown(Nt) == Nt \div 2

\* nsize = (Nt%2==0 ? Nt/2 : (Nt-1)/2+1)
nsize(Nt) == IF Nt % 2 = 0 THEN Nt \div 2 ELSE (Nt - 1) \div 2 + 1

\* the vector newterms after the pairing loop and the copy of terms.back();
\* terms.at(n) of the code is terms[n + 1] here
newterms(terms) ==
    LET Nt == Len(terms)
        paired == [k \in 1..nsize(Nt) |->
                     IF 2 * (k - 1) < Nt - 1
                     THEN sum2(terms[2 * (k - 1) + 1], terms[2 * (k - 1) + 2])
                     ELSE MPS]
    IN  IF Nt % 2 = 1
        THEN [k \in 1..nsize(Nt) |-> IF k = nsize(Nt) THEN terms[Nt] ELSE paired[k]]
        ELSE paired

\* the number of two-term sums the pairing loop makes
PairCount(Nt) == Cardinality({n \in 0..(Nt - 2) : n % 2 = 0})

\* sum(terms,args), Nt == 2
SumTwo ==
    /\ sumPc = "call"
    /\ Len(sumTerms) = 2
    /\ sumRes' = sum2(sumTerms[1], sumTerms[2])
    /\ sumAdds' = sumAdds + 1
    /\ sumPc' = "done"
    /\ UNCHANGED <<sumInput, sumTerms, sumRounds, mpsVars, ovVars, qnVars>>

\* sum(terms,args), Nt == 1
SumOne ==
    /\ sumPc = "call"
    /\ Len(sumTerms) = 1
    /\ sumRes' = sumTerms[1]
    /\ sumPc' = "done"
    /\ UNCHANGED <<sumInput, sumTerms, sumAdds, sumRounds, mpsVars, ovVars, qnVars>>

\* sum(terms,args), Nt > 2: pair the terms and call sum on the new list
SumRecurse ==
    /\ sumPc = "call"
    /\ Len(sumTerms) > 2
    /\ sumTerms' = newterms(sumTerms)
    /\ sumAdds' = sumAdds + PairCount(Len(sumTerms))
    /\ sumRounds' = sumRounds + 1
    /\ UNCHANGED <<sumInput, sumPc, sumRes, mpsVars, ovVars, qnVars>>

\* sum(terms,args), no term: return MPS()
SumNone ==
    /\ sumPc = "call"
    /\ Len(sumTerms) = 0
    /\ sumRes' = MPS
    /\ sumPc' = "done"
    /\ UNCHANGED <<sumInput, sumTerms, sumAdds, sumRounds, mpsVars, ovVars, qnVars>>

\* --------------------------------------------------------------- overlapC

\* linkInd(psi,b): the Link index psi.A(b) and psi.A(b+1) share, if any
linkInd(b) == b \in ovLinks

\* a site tensor of phi, or the conjugate of a site tensor of psi with the
\* named indices primed, multiplied into L
Contract(who, i, primed) == [t |-> who, i |-> i, primed |-> primed]

\* auto N = psi.N(); if(N != phi.N()) Error("overlap: mismatched N");
OvCheck ==
    /\ ovPc = "start"
    /\ IF ovNpsi # ovNphi
       THEN ovErr' = "mismatch" /\ ovPc' = "done"
       ELSE ovErr' = "none" /\ ovPc' = "first"
    /\ UNCHANGED <<ovNpsi, ovNphi, ovLinks, ovI, ovOps, mpsVars, sumVars, qnVars>>

\* L = phi.A(1) times the conjugate of psi.A(1); if(N == 1) return L.cplx();
OvFirst ==
    /\ ovPc = "first"
    /\ ovOps' = ovOps \o <<Contract("phi", 1, FALSE), Contract("psi", 1, linkInd(1))>>
    /\ IF ovNpsi = 1
       THEN ovPc' = "done" /\ ovI' = ovI
       ELSE ovPc' = "loop" /\ ovI' = 2
    /\ UNCHANGED <<ovNpsi, ovNphi, ovLinks, ovErr, mpsVars, sumVars, qnVars>>

\* mutant: the loop runs up to and including N
OvLoopCond_Inclusive(i, n) == i <= n

\* for(i = 2; i < N; ++i)
OvLoopCond(i, n) == i < n

\* L = L * phi.A(i) * dag(prime(psi.A(i),Link));
OvLoop ==
    /\ ovPc = "loop"
    /\ IF OvLoopCond(ovI, ovNpsi)
       THEN /\ ovOps' = ovOps \o <<Contract("phi", ovI, FALSE), Contract("psi", ovI, TRUE)>>
            /\ ovI' = ovI + 1
            /\ ovPc' = "loop"
       ELSE /\ ovPc' = "last"
            /\ UNCHANGED <<ovOps, ovI>>
    /\ UNCHANGED <<ovNpsi, ovNphi, ovLinks, ovErr, mpsVars, sumVars, qnVars>>

\* L = L * phi.A(N); return (dag(psi.A(N), primed on linkInd(psi,N-1)) * L).cplx();
OvLast ==
    /\ ovPc = "last"
    /\ ovOps' = ovOps \o <<Contract("phi", ovNpsi, FALSE),
                           Contract("psi", ovNpsi, linkInd(ovNpsi - 1))>>
    /\ ovPc' = "done"
    /\ UNCHANGED <<ovNpsi, ovNphi, ovLinks, ovI, ovErr, mpsVars, sumVars, qnVars>>

\* --------------------------------------------------------------------- QN

\* QNSize()
QNSize == 4

\* A QNVal is <<val_, mod_>>.
\* QNVal::set(v) is declared in the header and defined elsewhere: the stored
\* value is the canonical representative of v, v itself for |mod| <= 1 and
\* the residue in 0..|mod|-1 for |mod| > 1 (clock(0,3), clock(1,3), clock(2,3))
QNValSet(v, m) ==
    LET am == IF m < 0 THEN -m ELSE m
    IN  IF am > 1 THEN <<v % am, m>> ELSE <<v, m>>

\* QNVal(): val_ = 0, mod_ = 0
QNValDefault == <<0, 0>>

\* mutant: the one-argument constructor's mod_(1) used for every sector
QNValCtor_ModOne(v, m) == QNValSet(v, 1)

\* QNVal(qn_t v, qn_t m) : mod_(m) { set(v); }
QNValCtor(v, m) == QNValSet(v, m)

\* QN(QNVal v0, QNVal v1 = QNVal{}, v2 = QNVal{}, v3 = QNVal{}), and QN() for
\* no sector: the sectors given, the rest default constructed
QNCtor(pairs) ==
    [n \in 1..QNSize |->
        IF n <= Len(pairs) THEN QNValCtor(pairs[n][1], pairs[n][2]) ELSE QNValDefault]

\* QN()
QNDefault == [n \in 1..QNSize |-> QNValDefault]

\* spin(Sz): QN({Sz,1})
spin(Sz) == QNCtor(<<<<Sz, 1>>>>)

\* QNVal::operator-(): set(-val_)
QNValNeg(qv) == QNValSet(-qv[1], qv[2])

\* operator-(QN q), declared in the header: every sector's value negated and
\* brought back to canonical form
QNNeg(q) == [n \in 1..QNSize |-> QNValNeg(q[n])]

\* operator+=(QNVal& qva, QNVal const& qvb), declared in the header: the
\* values added under the sector's addition rule
QNValPlus(qva, qvb) == QNValSet(qva[1] + qvb[1], qva[2])

\* operator+(QN qa, QN const& qb): qa += qb, componentwise
QNPlus(qa, qb) == [n \in 1..QNSize |-> QNValPlus(qa[n], qb[n])]

\* operator==(QN,QN), declared in the header: exact match of all sector
\* (value, mod) pairs
QNEq(qa, qb) == \A n \in 1..QNSize : qa[n][1] = qb[n][1] /\ qa[n][2] = qb[n][2]

\* q is built from the pairs given, then -q and q + (-q) are computed
QNAddNeg ==
    /\ qnPc = "input"
    /\ qnQ' = QNCtor(qnIn)
    /\ qnNeg' = QNNeg(qnQ')
    /\ qnSum' = QNPlus(qnQ', qnNeg')
    /\ qnPc' = "done"
    /\ UNCHANGED <<qnIn, mpsVars, sumVars, ovVars>>

\* ------------------------------------------------------------------ Init

IdleMPS ==
    /\ N = 0 /\ A_ = <<>> /\ leftLim = 0 /\ rightLim = 1 /\ bond = 0
    /\ op = "idle" /\ err = "none" /\ dir = Fromleft /\ fromleft = TRUE
    /\ branch = "none" /\ ret = 0 /\ reads = {} /\ writes = {}

IdleSum ==
    /\ sumInput = <<>> /\ sumTerms = <<>> /\ sumPc = "idle" /\ sumRes = <<>>
    /\ sumAdds = 0 /\ sumRounds = 0

IdleOv ==
    /\ ovNpsi = 0 /\ ovNphi = 0 /\ ovLinks = {} /\ ovPc = "idle" /\ ovI = 0
    /\ ovOps = <<>> /\ ovErr = "none"

IdleQN ==
    /\ qnIn = <<>> /\ qnPc = "idle" /\ qnQ = <<>> /\ qnNeg = <<>> /\ qnSum = <<>>

\* an MPS of n sites whose tensors are in the gauge its limits claim
InitMPS(n, l, r) ==
    /\ IdleSum /\ IdleOv /\ IdleQN
    /\ N = n
    /\ leftLim = l
    /\ rightLim = r
    /\ A_ \in [1..n -> Tensor]
    /\ checkOrthoAll
    /\ bond = 0
    /\ op = "init"
    /\ err = "none"
    /\ dir = Fromleft
    /\ fromleft = TRUE
    /\ branch = "none"
    /\ ret = 0
    /\ reads = {}
    /\ writes = {}

Init == \E n \in 1..MaxN : \E l \in 0..n, r \in 1..(n + 1) : InitMPS(n, l, r)

Next == SvdBondCall \/ OrthoCenterCall \/ NormCall \/ ApplyGateCall

Spec == Init /\ [][Next]_vars

\* svdBond alone, on chains with at least one bond
InitSvd == \E n \in 2..MaxN : \E l \in 0..n, r \in 1..(n + 1) : InitMPS(n, l, r)

NextSvd == SvdBondCall

SpecSvd == InitSvd /\ [][NextSvd]_vars

\* applyGate alone, from a single orthogonality centre on a bond of the chain
InitGate == \E n \in 2..MaxN : \E c \in 1..(n - 1) : InitMPS(n, c - 1, c + 1)

NextGate == ApplyGateCall

SpecGate == InitGate /\ [][NextGate]_vars

\* the lists of at most n terms
TermLists(n) == UNION {[1..k -> {<<t>> : t \in 1..MaxTermId}] : k \in 0..n}

InitSum ==
    /\ IdleMPS /\ IdleOv /\ IdleQN
    /\ sumInput \in TermLists(MaxTerms)
    /\ sumTerms = sumInput
    /\ sumPc = "call"
    /\ sumRes = <<>>
    /\ sumAdds = 0
    /\ sumRounds = 0

NextSum == SumTwo \/ SumOne \/ SumRecurse \/ SumNone

SpecSum == InitSum /\ [][NextSum]_vars

\* overlapC on two chains of 1..MaxLen sites, psi with or without a Link
\* index on each of its bonds
InitOv ==
    /\ IdleMPS /\ IdleSum /\ IdleQN
    /\ ovNpsi \in 1..MaxLen
    /\ ovNphi \in 1..MaxLen
    /\ ovLinks \in SUBSET (1..(ovNpsi - 1))
    /\ ovPc = "start"
    /\ ovI = 0
    /\ ovOps = <<>>
    /\ ovErr = "none"

NextOv == OvCheck \/ OvFirst \/ OvLoop \/ OvLast

SpecOv == InitOv /\ [][NextOv]_vars

\* the mod factors of active sectors: Z, Z_3, fermionic Z, fermionic Z_2
QNMods == {1, 3, -1, -2}

\* up to QNSize active sectors
QNInputs == UNION {[1..k -> (-MaxQ..MaxQ) \X QNMods] : k \in 0..QNSize}

InitQN ==
    /\ IdleMPS /\ IdleSum /\ IdleOv
    /\ qnIn \in QNInputs
    /\ qnPc = "input"
    /\ qnQ = <<>>
    /\ qnNeg = <<>>
    /\ qnSum = <<>>

NextQN == QNAddNeg

SpecQN == InitQN /\ [][NextQN]_vars

\* ------------------------------------------------------------ MPS claims

\* C1: after any sequence of successful svdBond calls on bonds 1..N-1, from
\* an MPS in the gauge its limits claim, every site up to leftLim is a
\* left-isometry and every site from rightLim on is a right-isometry.
C1_OrthoWindowSound ==
    \A i \in Sites :
        /\ i <= leftLim => checkOrtho(i, TRUE)
        /\ i >= rightLim => checkOrtho(i, FALSE)

\* a successful rightward update that left a tensor that is no isometry of
\* either kind between a non-empty left and a non-empty right region
C1_Witness ==
    /\ op = "svdBond" /\ err = "none" /\ dir = Fromright
    /\ leftLim >= 1 /\ rightLim <= N
    /\ ~A_[bond].lo /\ ~A_[bond].ro

\* C2: a successful svdBond(b, Fromleft) ends with leftLim = b and rightLim =
\* max(old rightLim, b+2); a successful svdBond(b, Fromright) ends with
\* rightLim = b+1 and leftLim = min(old leftLim, b-1); in both branches.
C2_WindowUpdate ==
    [][ (op' = "svdBond" /\ err' = "none") =>
          /\ branch' \in {"svd", "denmat"}
          /\ dir' = Fromleft =>
                /\ leftLim' = bond'
                /\ rightLim' = (IF rightLim > bond' + 2 THEN rightLim ELSE bond' + 2)
                /\ rightLim' >= bond' + 2
          /\ dir' = Fromright =>
                /\ rightLim' = bond' + 1
                /\ leftLim' = (IF leftLim < bond' - 1 THEN leftLim ELSE bond' - 1)
                /\ leftLim' <= bond' - 1 ]_vars

\* a leftward update in the density matrix branch that kept a rightLim
\* beyond b+2
C2_Witness ==
    /\ op = "svdBond" /\ err = "none" /\ dir = Fromleft /\ branch = "denmat"
    /\ leftLim = bond /\ rightLim > bond + 2

\* C3: svdBond fails with the gauge error exactly when (Fromleft and b-1 >
\* leftLim) or (Fromright and b+2 < rightLim); a failing call leaves leftLim,
\* rightLim and every site tensor as they were.
C3_GaugePrecondition ==
    [][ op' = "svdBond" =>
          /\ err' \in {"gauge", "none"}
          /\ err' = "gauge" <=>
                \/ dir' = Fromleft /\ bond' - 1 > leftLim
                \/ dir' = Fromright /\ bond' + 2 < rightLim
          /\ err' = "gauge" =>
                /\ leftLim' = leftLim /\ rightLim' = rightLim /\ A_' = A_
                /\ writes' = {} ]_vars

\* both gauge failures: they leave different directions behind
C3_Witness ==
    /\ op = "svdBond" /\ err = "gauge" /\ dir = Fromright /\ bond + 2 < rightLim

\* C4: isOrtho is leftLim+1 = rightLim-1; orthoCenter and norm fail exactly
\* when it is false; otherwise orthoCenter returns leftLim+1 and norm reads
\* only the tensor at leftLim+1; neither changes a limit or a tensor.
C4_SingleCenter ==
    [][ /\ isOrtho <=> (leftLim + 1 = rightLim - 1)
        /\ op' \in {"orthoCenter", "norm"} =>
              /\ err' = "ortho" <=> ~(leftLim + 1 = rightLim - 1)
              /\ err' \in {"ortho", "none"}
              /\ (op' = "orthoCenter" /\ err' = "none") => ret' = leftLim + 1
              /\ (op' = "norm" /\ err' = "none") => reads' = {leftLim + 1}
              /\ err' = "ortho" => reads' = {}
              /\ writes' = {}
              /\ leftLim' = leftLim /\ rightLim' = rightLim /\ A_' = A_ ]_vars

\* norm computed from the centre tensor of a chain whose centre is site 2
C4_Witness == op = "norm" /\ err = "none" /\ reads = {2} /\ leftLim = 1 /\ rightLim = 3

\* C8: applyGate on a single centre c calls svdBond on bond c in the
\* direction the option Fromleft names, never fails the gauge check, and
\* leaves a single centre, c+1 after Fromleft and c after Fromright; with no
\* single centre it fails with the orthogonality error and changes nothing.
C8_GateUpdate ==
    [][ op' = "applyGate" =>
          IF leftLim + 1 = rightLim - 1
          THEN /\ err' = "none"
               /\ bond' = leftLim + 1
               /\ dir' = (IF fromleft' THEN Fromleft ELSE Fromright)
               /\ leftLim' + 1 = rightLim' - 1
               /\ leftLim' + 1 = (IF fromleft' THEN leftLim + 2 ELSE leftLim + 1)
          ELSE /\ err' = "ortho"
               /\ writes' = {}
               /\ leftLim' = leftLim /\ rightLim' = rightLim /\ A_' = A_ ]_vars

\* a gate applied left to right on a bond of the chain moved the centre
C8_Witness ==
    /\ op = "applyGate" /\ err = "none" /\ fromleft /\ dir = Fromleft
    /\ bond <= N - 1 /\ leftLim = bond /\ rightLim = bond + 2

\* C9: every svdBond that applyGate invokes, in any sequence of applyGate
\* calls from a single centre in 1..N-1, is on a bond b with 1 <= b <= N-1.
C9_GateBondInRange ==
    (op = "applyGate" /\ err = "none") => (1 <= bond /\ bond <= N - 1)

\* C10: after a successful svdBond on a bond 1..N-1, leftLim + 2 <= rightLim
\* and the site that received the weights lies strictly between the limits;
\* 0 <= leftLim and rightLim <= N+1 are kept by every such call.
C10_WindowWellFormed ==
    /\ (op = "svdBond" /\ err = "none") =>
          /\ leftLim + 2 <= rightLim
          /\ (IF dir = Fromleft THEN bond + 1 ELSE bond) \in (leftLim + 1)..(rightLim - 1)
    /\ 0 <= leftLim
    /\ rightLim <= N + 1

\* a rightward update that left more than one site between the limits
C10_Witness ==
    /\ op = "svdBond" /\ err = "none" /\ dir = Fromright
    /\ leftLim < bond - 1 /\ rightLim = bond + 1

\* ------------------------------------------------------------- sum claim

\* the terms of an MPS expression, left to right
C5_Leaves(x) == SelectSeq(x, LAMBDA e : e # 0)

\* the list of the terms handed to the outermost call, left to right
C5_InputLeaves == [k \in 1..Len(sumInput) |-> sumInput[k][1]]

\* the balanced pairwise reduction as the claim words it: for more than two
\* terms, the sum of [add(t0,t1), add(t2,t3), ...], of length ceil(Nt/2),
\* whose last element is the trailing term when Nt is odd
RECURSIVE C5_Balanced(_)
C5_Balanced(ts) ==
    LET n == Len(ts) IN
    IF n = 0 THEN <<>>
    ELSE IF n = 1 THEN ts[1]
    ELSE IF n = 2 THEN <<0>> \o ts[1] \o ts[2]
    ELSE C5_Balanced([k \in 1..((n + 1) \div 2) |->
                        IF 2 * k <= n THEN <<0>> \o ts[2 * k - 1] \o ts[2 * k]
                        ELSE ts[n]])

RECURSIVE C5_Pow2(_)
C5_Pow2(k) == IF k = 0 THEN 1 ELSE 2 * C5_Pow2(k - 1)

\* C5: sum(terms) is the balanced pairwise reduction: <<>> for no term, the
\* term itself for one, add(a,b) for two, add(add(a,b),c) for three; every
\* term enters the result once, in order; the two-term sum is called Nt-1
\* times; each round halves the list (rounded up), and a call always returns
\* or recurses.
C5_SumBalanced ==
    LET Nt == Len(sumInput) IN
    /\ sumPc = "done" =>
          /\ sumRes = C5_Balanced(sumInput)
          /\ Nt = 0 => sumRes = <<>>
          /\ Nt = 1 => sumRes = sumInput[1]
          /\ Nt = 2 => sumRes = <<0>> \o sumInput[1] \o sumInput[2]
          /\ Nt = 3 => sumRes = <<0, 0>> \o sumInput[1] \o sumInput[2] \o sumInput[3]
          /\ C5_Leaves(sumRes) = C5_InputLeaves
          /\ Nt >= 1 => sumAdds = Nt - 1
          /\ Nt >= 1 => Len(sumRes) = 2 * Nt - 1
    /\ sumPc = "call" =>
          /\ ENABLED NextSum
          /\ (Len(sumTerms) - 1) * C5_Pow2(sumRounds) < Nt
          /\ Nt <= Len(sumTerms) * C5_Pow2(sumRounds)
    /\ sumRounds <= Nt

\* five terms summed in two rounds of pairing and a final two-term sum
C5_Witness ==
    /\ sumPc = "done" /\ Len(sumInput) = 5 /\ sumRounds = 2 /\ sumAdds = 4
    /\ sumRes = <<0, 0, 0, 1, 2, 0, 3, 1, 2>>

\* --------------------------------------------------------- overlap claim

\* phi.A(i) and then the conjugate of psi.A(i), for i = 1..n in order
C6_InOrder(n) ==
    /\ Len(ovOps) = 2 * n
    /\ \A i \in 1..n :
          /\ ovOps[2 * i - 1].t = "phi" /\ ovOps[2 * i - 1].i = i
          /\ ovOps[2 * i].t = "psi" /\ ovOps[2 * i].i = i

\* C6: overlap fails with the mismatch error exactly when psi.N() # phi.N(),
\* before any tensor is contracted; for equal length N >= 1 it contracts
\* phi.A(i) and the conjugate of psi.A(i) once each for i = 1..N in
\* increasing order, N = 1 not entering the loop; the inputs are not modified.
C6_OverlapOrder ==
    [][ /\ ovPc' = "done" =>
              /\ ovErr' = "mismatch" <=> ovNpsi # ovNphi
              /\ ovErr' = "mismatch" => ovOps' = <<>>
              /\ ovErr' = "none" =>
                    /\ C6_InOrder(ovNpsi)'
                    /\ ovNpsi = 1 => ovI' = 0
        /\ ovPc' # "done" => ovErr' = "none"
        /\ ovPc' \in {"loop", "last"} => C6_InOrder(ovI - 1)'
        /\ ovNpsi' = ovNpsi /\ ovNphi' = ovNphi /\ ovLinks' = ovLinks ]_vars

\* two chains of four sites contracted to the end
C6_Witness ==
    /\ ovPc = "done" /\ ovErr = "none" /\ ovNpsi = 4 /\ Len(ovOps) = 8
    /\ ovOps[8] = [t |-> "psi", i |-> 4, primed |-> TRUE]

\* -------------------------------------------------------------- QN claim

====
